---------------------------- MODULE Spec2Model ----------------------------
(***************************************************************************)
(* A model of alru_cache.py: the asynchronous LRU cache wrapper built by   *)
(* _lru_cache_wrapper, in its three modes (maxsize == 0, maxsize is None,  *)
(* maxsize a positive integer), with cache_info and cache_clear.           *)
(*                                                                         *)
(* Callers are concurrent calls of the wrapper.  A caller gives up control *)
(* only at `await user_function(...)`; in bounded mode every access to the *)
(* shared state is inside `with lock:`, and the model lets callers         *)
(* interleave at every lock boundary, which covers both the cooperative    *)
(* scheduler and threads.  The code inside a locked section is cut into a  *)
(* few steps so that the intermediate states of the list are visible.      *)
(***************************************************************************)
EXTENDS Integers, Sequences, FiniteSets, TLC

\* ------------------------------------------------------------------ bounds
NumCallers == 2   \* concurrent callers
NumKeys    == 3   \* distinct cache keys
MaxMaxsize == 2   \* largest positive maxsize
NumVers    == 2   \* distinct result objects user_function can return per key
MaxOps     == 4   \* operations started in one behaviour
FairOps    == 3   \* operations started in one behaviour under fair scheduling
MaxArgs    == 1   \* positional arguments of a call (besides self)
NumNames   == 2   \* keyword names
KeyedOps   == 2   \* calls made in a behaviour that looks at the arguments

Callers == 1..NumCallers
Keys    == 1..NumKeys
NodeIds == 0..(MaxMaxsize + 1)   \* addresses of the list objects (the links)

\* ------------------------------------------------------- encoding of values
None      == 0        \* Python None in a KEY field or a local key
NoResult  == <<>>     \* Python None in a RESULT field; a result is <<key, ver>>
Null      == -1       \* a local that holds no link
Unbounded == -1       \* maxsize is None

VARIABLES
    maxsize,    \* _lru_cache_wrapper parameter
    typed,      \* _lru_cache_wrapper parameter
    weak_self,  \* alru_cache parameter
    method,     \* the first parameter of the decorated function is `self`
    args,       \* positional arguments each caller calls the wrapper with
    kwds,       \* keyword arguments each caller calls the wrapper with, in order
    cache,      \* dict: key -> link (bounded) or key -> result (unbounded)
    hits, misses, full,
    lock,       \* owner of the RLock, 0 when free
    root,       \* address of the current root link
    links,      \* the heap: address -> [prev, next, key, result] or Free
    pc,         \* where each caller is in the code
    key,        \* wrapper local `key` of each caller
    result,     \* wrapper local `result` of each caller (the value returned)
    link,       \* wrapper local `link` of the lock holder
    oldroot,    \* wrapper local `oldroot` of the lock holder
    oldkey,     \* wrapper local `oldkey` of the lock holder
    loaded,     \* the counter value a thread has read in `misses += 1`
    outcome,    \* how each caller's last operation ended
    \* history variables: they record what happened and steer nothing
    nOps,       \* operations started so far (bounds the behaviour)
    started,    \* wrapper calls started since the last cache_clear
    looked,     \* wrapper calls that finished their lookup since the last clear
    computing,  \* user_function invocations started since the last cache_clear
    invoked,    \* user_function invocations made by each caller's current call
    recency,    \* stored keys, oldest first, by the locked step that touched them
    cleared,    \* keys that a cache_clear removed from the dict
    stale,      \* the keys of cleared that no call has stored again since
    called,     \* unbounded mode: keys called since the last cache_clear
    repeat,     \* unbounded mode: the caller's call was not the first for its key
    first       \* unbounded mode: what the first call for each key returned

vars == <<maxsize, typed, weak_self, method, args, kwds, cache, hits, misses, full,
          lock, root, links, pc, key, result, link, oldroot, oldkey, loaded,
          outcome, nOps, started, looked, computing, invoked, recency, cleared,
          stale, called, repeat, first>>

params == <<maxsize, typed, weak_self, method>>   \* fixed by the decoration
inputs == <<args, kwds>>                  \* fixed per caller

shared == <<cache, hits, misses, full, root, links>>
counts == <<started, looked, computing>>
hist   == <<cleared, stale>>
unb    == <<called, repeat, first>>
ghost  == <<counts, recency, hist, unb>>

\* --------------------------------------------------------------- dict helpers
Has(d, k)    == k \in DOMAIN d
Put(d, k, v) == [x \in (DOMAIN d) \cup {k} |-> IF x = k THEN v ELSE d[x]]
Del(d, k)    == [x \in (DOMAIN d) \ {k} |-> d[x]]
cache_len    == Cardinality(DOMAIN cache)
EmptyDict    == <<>>

\* ---------------------------------------------------------------- list helpers
Node(p, n, k, r) == [prev |-> p, next |-> n, key |-> k, result |-> r]
EmptyRoot(r)     == Node(r, r, None, NoResult)
Free             == Node(Null, Null, None, NoResult)  \* no live object there

RECURSIVE LinksFrom(_, _, _, _)
\* the links met following next from address n until r is met again
LinksFrom(h, r, n, fuel) ==
    IF n = r \/ fuel = 0 \/ h[n] = Free THEN <<>>
    ELSE <<n>> \o LinksFrom(h, r, h[n].next, fuel - 1)

\* the list of heap h from root r, oldest first: its links, keys, entries
LinksOf(h, r)   == LinksFrom(h, r, h[r].next, Cardinality(NodeIds) + 1)
WalkOf(h, r)    == [i \in DOMAIN LinksOf(h, r) |-> h[LinksOf(h, r)[i]].key]
EntriesOf(h, r) == [i \in DOMAIN LinksOf(h, r) |->
                       <<h[LinksOf(h, r)[i]].key, h[LinksOf(h, r)[i]].result>>]
Walk            == WalkOf(links, root)
Entries         == EntriesOf(links, root)
SeqSet(s) == {s[i] : i \in 1..Len(s)}
FreeIds   == {n \in NodeIds : links[n] = Free}
NewId     == CHOOSE n \in FreeIds : \A m \in FreeIds : n <= m
Remove(s, k) == SelectSeq(s, LAMBDA x : x /= k)

\* -------------------------------------------------------------------- the lock
\* `with lock:` entry: the RLock is free.  Callers are distinct call paths;
\* no locked section calls the wrapper, cache_info or cache_clear, so the
\* lock is never entered again by its owner.
CanAcquire(c) == lock = 0

\* the lock is kept when the block is left
KeepLock(c) == lock

\* `with lock:` exit
ReleaseLock(c) == IF lock = c THEN 0 ELSE lock

Idle(c) == pc[c] = "idle"
\* a behaviour starts at most MaxOps operations
Budget  == nOps < MaxOps

Init ==
    /\ cache = EmptyDict
    /\ hits = 0 /\ misses = 0 /\ full = FALSE
    /\ lock = 0
    /\ root = 0
    /\ links = [n \in NodeIds |-> IF n = 0 THEN EmptyRoot(0) ELSE Free]
    /\ pc = [c \in Callers |-> "idle"]
    /\ key = [c \in Callers |-> None]
    /\ result = [c \in Callers |-> NoResult]
    /\ link = [c \in Callers |-> Null]
    /\ oldroot = [c \in Callers |-> Null]
    /\ oldkey = [c \in Callers |-> None]
    /\ loaded = [c \in Callers |-> 0]
    /\ outcome = [c \in Callers |-> "none"]
    /\ nOps = 0 /\ started = 0 /\ looked = 0 /\ computing = 0
    /\ invoked = [c \in Callers |-> 0]
    /\ recency = <<>>
    /\ cleared = {} /\ stale = {}
    /\ called = {}
    /\ repeat = [c \in Callers |-> FALSE]
    /\ first = EmptyDict

\* ------------------------------------------------ bounded mode: the wrapper
\* line 104: a call starts and derives its key
Call(c, k) ==
    /\ Idle(c) /\ Budget
    /\ pc' = [pc EXCEPT ![c] = "lookup_lock"]
    /\ key' = [key EXCEPT ![c] = k]
    /\ result' = [result EXCEPT ![c] = NoResult]
    /\ outcome' = [outcome EXCEPT ![c] = "none"]
    /\ invoked' = [invoked EXCEPT ![c] = 0]
    /\ nOps' = nOps + 1
    /\ started' = started + 1
    /\ UNCHANGED <<params, inputs, loaded, shared, lock, link, oldroot, oldkey, looked,
                   computing, recency, hist, unb>>

\* line 105: `with lock:` is entered
AcquireLookup(c) ==
    /\ pc[c] = "lookup_lock" /\ CanAcquire(c)
    /\ lock' = c
    /\ pc' = [pc EXCEPT ![c] = "lookup"]
    /\ UNCHANGED <<params, inputs, loaded, shared, key, result, link, oldroot, oldkey,
                   outcome, nOps, ghost, invoked>>

\* lines 110-111: the link is taken out of the list
Unlink(h, l) ==
    LET link_prev == h[l].prev
        link_next == h[l].next
        h1 == [h EXCEPT ![link_prev].next = link_next]
    IN  [h1 EXCEPT ![link_next].prev = link_prev]

\* the link is put right after root, where the oldest link is
LinkAfterRoot(h, r, l) ==
    LET head == h[r].next
        h1 == [h EXCEPT ![head].prev = l]
        h2 == [h1 EXCEPT ![r].next = l]
        h3 == [h2 EXCEPT ![l].next = head]
    IN  [h3 EXCEPT ![l].prev = r]

\* lines 112-115: the link is put in front of root
LinkBeforeRoot(h, r, l) ==
    LET last == h[r].prev
        h1 == [h EXCEPT ![last].next = l]
        h2 == [h1 EXCEPT ![r].prev = l]
        h3 == [h2 EXCEPT ![l].prev = last]
    IN  [h3 EXCEPT ![l].next = r]

\* line 118 left out: the miss is not counted when the computation starts
LookupUncounted(c) ==
    /\ pc[c] = "lookup"
    /\ IF Has(cache, key[c])
       THEN /\ link' = [link EXCEPT ![c] = cache[key[c]]]
            /\ result' = [result EXCEPT ![c] = links[cache[key[c]]].result]
            /\ links' = Unlink(links, cache[key[c]])
            /\ pc' = [pc EXCEPT ![c] = "promote"]
            /\ UNCHANGED <<lock, invoked, looked, computing>>
       ELSE /\ lock' = ReleaseLock(c)
            /\ pc' = [pc EXCEPT ![c] = "compute"]
            /\ invoked' = [invoked EXCEPT ![c] = invoked[c] + 1]
            /\ looked' = looked + 1
            /\ computing' = computing + 1
            /\ UNCHANGED <<link, result, links>>
    /\ UNCHANGED <<params, inputs, loaded, cache, hits, misses, full, root, key,
                   oldroot, oldkey, outcome, nOps, started, recency, hist, unb>>

\* the `with lock:` block of line 105 extended over line 119: the lock is
\* held while user_function runs
LookupHoldsLock(c) ==
    /\ pc[c] = "lookup"
    /\ IF Has(cache, key[c])
       THEN /\ link' = [link EXCEPT ![c] = cache[key[c]]]
            /\ result' = [result EXCEPT ![c] = links[cache[key[c]]].result]
            /\ links' = Unlink(links, cache[key[c]])
            /\ pc' = [pc EXCEPT ![c] = "promote"]
            /\ UNCHANGED <<misses, invoked, looked, computing>>
       ELSE /\ misses' = misses + 1
            /\ pc' = [pc EXCEPT ![c] = "compute"]
            /\ invoked' = [invoked EXCEPT ![c] = invoked[c] + 1]
            /\ looked' = looked + 1
            /\ computing' = computing + 1
            /\ UNCHANGED <<link, result, links>>
    /\ UNCHANGED <<params, inputs, loaded, cache, hits, full, root, key, oldroot, oldkey,
                   lock, outcome, nOps, started, recency, hist, unb>>

\* lines 106-111 on a hit, lines 106-107, 118-119 on a miss
Lookup(c) ==
    /\ pc[c] = "lookup"
    /\ IF Has(cache, key[c])
       THEN /\ link' = [link EXCEPT ![c] = cache[key[c]]]
            /\ result' = [result EXCEPT ![c] = links[cache[key[c]]].result]
            /\ links' = Unlink(links, cache[key[c]])
            /\ pc' = [pc EXCEPT ![c] = "promote"]
            /\ UNCHANGED <<misses, lock, invoked, looked, computing>>
       ELSE /\ misses' = misses + 1
            /\ lock' = ReleaseLock(c)
            /\ pc' = [pc EXCEPT ![c] = "compute"]
            /\ invoked' = [invoked EXCEPT ![c] = invoked[c] + 1]
            /\ looked' = looked + 1
            /\ computing' = computing + 1
            /\ UNCHANGED <<link, result, links>>
    /\ UNCHANGED <<params, inputs, loaded, cache, hits, full, root, key, oldroot, oldkey,
                   outcome, nOps, started, recency, hist, unb>>

\* lines 112-117: the hit link becomes the most recently used, hits is counted,
\* the stored result is returned
Promote(c) ==
    /\ pc[c] = "promote"
    /\ links' = LinkBeforeRoot(links, root, link[c])
    /\ hits' = hits + 1
    /\ lock' = ReleaseLock(c)
    /\ pc' = [pc EXCEPT ![c] = "idle"]
    /\ outcome' = [outcome EXCEPT ![c] = "hit"]
    /\ link' = [link EXCEPT ![c] = Null]
    /\ looked' = looked + 1
    /\ recency' = Append(Remove(recency, key[c]), key[c])
    /\ UNCHANGED <<params, inputs, loaded, cache, misses, full, root, key, result, oldroot,
                   oldkey, nOps, started, computing, invoked, hist, unb>>

\* line 119: user_function completes with some result object for the key
Resume(c, v) ==
    /\ pc[c] = "compute"
    /\ result' = [result EXCEPT ![c] = <<key[c], v>>]
    /\ pc' = [pc EXCEPT ![c] = "insert_lock"]
    /\ UNCHANGED <<params, inputs, loaded, shared, lock, key, link, oldroot, oldkey, outcome,
                   nOps, ghost, invoked>>

\* the miss counted for the failed call is taken back
RaiseRollback(c) ==
    /\ pc[c] = "compute"
    /\ pc' = [pc EXCEPT ![c] = "idle"]
    /\ outcome' = [outcome EXCEPT ![c] = "raised"]
    /\ misses' = IF misses > 0 THEN misses - 1 ELSE 0
    /\ UNCHANGED <<params, inputs, loaded, cache, hits, full, root, links, lock, key, result,
                   link, oldroot, oldkey, nOps, ghost, invoked>>

\* line 119: user_function raises, or the call is cancelled while suspended
Raise(c) ==
    /\ pc[c] = "compute"
    /\ pc' = [pc EXCEPT ![c] = "idle"]
    /\ outcome' = [outcome EXCEPT ![c] = "raised"]
    /\ UNCHANGED <<params, inputs, loaded, shared, lock, key, result, link, oldroot, oldkey,
                   nOps, ghost, invoked>>

\* line 120: `with lock:` is entered again
AcquireInsert(c) ==
    /\ pc[c] = "insert_lock" /\ CanAcquire(c)
    /\ lock' = c
    /\ pc' = [pc EXCEPT ![c] = "insert"]
    /\ UNCHANGED <<params, inputs, loaded, shared, key, result, link, oldroot, oldkey,
                   outcome, nOps, ghost, invoked>>

\* the test of line 121 left out
NeverPresent(c) == FALSE

\* line 121: the key was added while the lock was released
KeyPresent(c) == Has(cache, key[c])

\* the existing link takes the result computed by this call
Overwrite(h, n, res) == [h EXCEPT ![n].result = res]

\* lines 122-126: `pass`, the existing link n is left as it is
Pass(h, n, res) == h

\* the link before root, the most recently used one, is taken instead
Newest(h, r) == h[r].prev

\* line 138: oldroot[NEXT], the least recently used link
Oldest(h, r) == h[r].next

\* lines 129-140: the old root takes the new key and result, the oldest link
\* becomes the new root and is emptied
EvictLinks(h, r, k, res) ==
    LET h1 == [h EXCEPT ![r].key = k]
        h2 == [h1 EXCEPT ![r].result = res]
        newroot == Oldest(h2, r)
        h3 == [h2 EXCEPT ![newroot].key = None]
    IN  [h3 EXCEPT ![newroot].result = NoResult]

\* lines 149-151: a new link [last, root, key, result] is put in front of root
NewLink(h, r, n, k, res) ==
    LET last == h[r].prev
        h1 == [h EXCEPT ![n] = Node(last, r, k, res)]
        h2 == [h1 EXCEPT ![last].next = n]
    IN  [h2 EXCEPT ![r].prev = n]

\* lines 121-126 (key present), 127-140 (full), 147-151 (room left)
Insert(c) ==
    /\ pc[c] = "insert"
    /\ IF KeyPresent(c)
       THEN /\ lock' = ReleaseLock(c)
            /\ pc' = [pc EXCEPT ![c] = "idle"]
            /\ outcome' = [outcome EXCEPT ![c] = "miss_present"]
            /\ links' = Pass(links, cache[key[c]], result[c])
            /\ UNCHANGED <<cache, root, link, oldroot, oldkey>>
       ELSE IF full
       THEN /\ oldroot' = [oldroot EXCEPT ![c] = root]
            /\ root' = Oldest(links, root)
            /\ oldkey' = [oldkey EXCEPT ![c] = links[Oldest(links, root)].key]
            /\ links' = EvictLinks(links, root, key[c], result[c])
            /\ pc' = [pc EXCEPT ![c] = "evict"]
            /\ UNCHANGED <<cache, lock, link, outcome>>
       ELSE /\ FreeIds /= {}
            /\ link' = [link EXCEPT ![c] = NewId]
            /\ links' = NewLink(links, root, NewId, key[c], result[c])
            /\ cache' = Put(cache, key[c], NewId)
            /\ pc' = [pc EXCEPT ![c] = "set_full"]
            /\ UNCHANGED <<root, lock, oldroot, oldkey, outcome>>
    /\ UNCHANGED <<params, inputs, loaded, hits, misses, full, key, result, nOps, ghost,
                   invoked>>

\* line 142 left out: the old key stays in the dict
EvictCacheNoDel(d, oldk, k, node) == Put(d, k, node)

\* line 146 with root for oldroot: the key maps to the emptied link
EvictCacheToRoot(d, oldk, k, node) == Put(Del(d, oldk), k, d[oldk])

\* lines 142-146: del cache[oldkey]; cache[key] = oldroot
EvictCache(d, oldk, k, node) == Put(Del(d, oldk), k, node)

\* lines 142-146, 155: the dict forgets the old key and maps the new key to
\* the old root; `del cache[oldkey]` raises KeyError when oldkey is not a key
EvictDict(c) ==
    /\ pc[c] = "evict"
    /\ IF Has(cache, oldkey[c])
       THEN /\ cache' = EvictCache(cache, oldkey[c], key[c], oldroot[c])
            /\ outcome' = [outcome EXCEPT ![c] = "miss_evict"]
            /\ recency' = Append(Remove(recency, oldkey[c]), key[c])
            /\ stale' = stale \ {key[c]}
       ELSE /\ outcome' = [outcome EXCEPT ![c] = "KeyError"]
            /\ UNCHANGED <<cache, recency, stale>>
    /\ lock' = ReleaseLock(c)
    /\ pc' = [pc EXCEPT ![c] = "idle"]
    /\ oldroot' = [oldroot EXCEPT ![c] = Null]
    /\ oldkey' = [oldkey EXCEPT ![c] = None]
    /\ UNCHANGED <<params, inputs, loaded, hits, misses, full, root, links, key, result, link,
                   nOps, counts, invoked, cleared, unb>>

\* the test is > instead of >=
IsFullOffByOne == cache_len > maxsize

\* line 154: full = (cache_len() >= maxsize)
IsFull == cache_len >= maxsize

\* lines 154-155
SetFull(c) ==
    /\ pc[c] = "set_full"
    /\ full' = IsFull
    /\ lock' = ReleaseLock(c)
    /\ pc' = [pc EXCEPT ![c] = "idle"]
    /\ outcome' = [outcome EXCEPT ![c] = "miss_new"]
    /\ link' = [link EXCEPT ![c] = Null]
    /\ recency' = Append(recency, key[c])
    /\ stale' = stale \ {key[c]}
    /\ UNCHANGED <<params, inputs, loaded, cache, hits, misses, root, links, key, result,
                   oldroot, oldkey, nOps, counts, invoked, cleared, unb>>

\* -------------------------------------------------- cache_info, cache_clear
\* line 159: cache_info is called and enters `with lock:`
InfoStart(c) ==
    /\ Idle(c) /\ Budget /\ CanAcquire(c)
    /\ lock' = c
    /\ pc' = [pc EXCEPT ![c] = "info"]
    /\ key' = [key EXCEPT ![c] = None]
    /\ result' = [result EXCEPT ![c] = NoResult]
    /\ outcome' = [outcome EXCEPT ![c] = "none"]
    /\ invoked' = [invoked EXCEPT ![c] = 0]
    /\ nOps' = nOps + 1
    /\ UNCHANGED <<params, inputs, loaded, shared, link, oldroot, oldkey, ghost>>

\* line 160: _CacheInfo(hits, misses, maxsize, cache_len())
cache_info(c) ==
    /\ pc[c] = "info"
    /\ result' = [result EXCEPT ![c] = <<hits, misses, maxsize, cache_len>>]
    /\ lock' = ReleaseLock(c)
    /\ pc' = [pc EXCEPT ![c] = "idle"]
    /\ outcome' = [outcome EXCEPT ![c] = "info"]
    /\ UNCHANGED <<params, inputs, loaded, shared, key, link, oldroot, oldkey, nOps, ghost,
                   invoked>>

\* line 165: cache_clear is called and enters `with lock:`
ClearStart(c) ==
    /\ Idle(c) /\ Budget /\ CanAcquire(c)
    /\ lock' = c
    /\ pc' = [pc EXCEPT ![c] = "clear"]
    /\ key' = [key EXCEPT ![c] = None]
    /\ result' = [result EXCEPT ![c] = NoResult]
    /\ outcome' = [outcome EXCEPT ![c] = "none"]
    /\ invoked' = [invoked EXCEPT ![c] = 0]
    /\ nOps' = nOps + 1
    /\ UNCHANGED <<params, inputs, loaded, shared, link, oldroot, oldkey, ghost>>

\* line 167 left out: the list keeps its links
KeepLinks(h, r) == h

\* lines 166-167: cache.clear(); root[:] = [root, root, None, None].  The links
\* that were in the list are referenced by nothing any more: their addresses
\* are free again.
ClearLinks(h, r) == [n \in NodeIds |-> IF n = r THEN EmptyRoot(r) ELSE Free]

ClearDict(c) ==
    /\ pc[c] = "clear"
    /\ cache' = EmptyDict
    /\ links' = ClearLinks(links, root)
    /\ pc' = [pc EXCEPT ![c] = "clear_stats"]
    /\ cleared' = cleared \cup DOMAIN cache
    /\ stale' = stale \cup DOMAIN cache
    /\ UNCHANGED <<params, inputs, loaded, hits, misses, full, lock, root, key, result, link,
                   oldroot, oldkey, outcome, nOps, counts, recency, unb,
                   invoked>>

\* line 169 left out: full keeps its value
ClearKeepsFull(c) ==
    /\ pc[c] = "clear_stats"
    /\ hits' = 0 /\ misses' = 0
    /\ lock' = ReleaseLock(c)
    /\ pc' = [pc EXCEPT ![c] = "idle"]
    /\ outcome' = [outcome EXCEPT ![c] = "cleared"]
    /\ started' = 0 /\ looked' = 0 /\ computing' = 0 /\ recency' = <<>>
    /\ called' = {} /\ first' = EmptyDict
    /\ UNCHANGED <<params, inputs, loaded, cache, full, root, links, key,
                   result, link, oldroot, oldkey, nOps, invoked, hist, repeat>>

\* lines 168-169: hits = misses = 0; full = False
cache_clear(c) ==
    /\ pc[c] = "clear_stats"
    /\ hits' = 0 /\ misses' = 0 /\ full' = FALSE
    /\ lock' = ReleaseLock(c)
    /\ pc' = [pc EXCEPT ![c] = "idle"]
    /\ outcome' = [outcome EXCEPT ![c] = "cleared"]
    /\ started' = 0 /\ looked' = 0 /\ computing' = 0 /\ recency' = <<>>
    /\ called' = {} /\ first' = EmptyDict
    /\ UNCHANGED <<params, inputs, loaded, cache, root, links, key, result, link, oldroot,
                   oldkey, nOps, invoked, hist, repeat>>

\* ------------------------------------------------- maxsize == 0: the wrapper
\* The wrappers of the two modes without ordering take no lock.  Under the
\* event loop a coroutine gives up control only at `await`: it runs while no
\* other caller is in the middle of synchronous code.
AtAwait(c) == \A d \in Callers \ {c} : pc[d] \in {"idle", "compute"}

\* line 80 left out
ZeroMissesKept == misses

\* line 80: misses += 1
ZeroMisses == misses + 1

\* lines 80-81: misses += 1, user_function is invoked; key[c] stands for the
\* arguments of the call (this mode builds no key)
ZeroCall(c, k) ==
    /\ Idle(c) /\ Budget /\ AtAwait(c)
    /\ misses' = ZeroMisses
    /\ pc' = [pc EXCEPT ![c] = "compute"]
    /\ key' = [key EXCEPT ![c] = k]
    /\ result' = [result EXCEPT ![c] = NoResult]
    /\ outcome' = [outcome EXCEPT ![c] = "none"]
    /\ invoked' = [invoked EXCEPT ![c] = 1]
    /\ nOps' = nOps + 1
    /\ started' = started + 1
    /\ looked' = looked + 1
    /\ computing' = computing + 1
    /\ UNCHANGED <<params, inputs, loaded, cache, hits, full, root, links, lock, link, oldroot,
                   oldkey, recency, hist, unb>>

\* lines 81-82: user_function completes and its result is returned
ZeroReturn(c, v) ==
    /\ pc[c] = "compute"
    /\ result' = [result EXCEPT ![c] = <<key[c], v>>]
    /\ pc' = [pc EXCEPT ![c] = "idle"]
    /\ outcome' = [outcome EXCEPT ![c] = "miss"]
    /\ UNCHANGED <<params, inputs, loaded, shared, lock, key, link, oldroot, oldkey, nOps,
                   ghost, invoked>>

ZeroResume(c, v) == AtAwait(c) /\ ZeroReturn(c, v)

\* ----------------------------------------------- maxsize is None: the wrapper
\* lines 89-95: the lookup; a hit returns at once, a miss invokes user_function
UnbCall(c, k) ==
    /\ Idle(c) /\ Budget /\ AtAwait(c)
    /\ key' = [key EXCEPT ![c] = k]
    /\ nOps' = nOps + 1
    /\ started' = started + 1
    /\ looked' = looked + 1
    /\ repeat' = [repeat EXCEPT ![c] = k \in called]
    /\ called' = called \cup {k}
    /\ IF Has(cache, k)
       THEN /\ hits' = hits + 1
            /\ result' = [result EXCEPT ![c] = cache[k]]
            /\ outcome' = [outcome EXCEPT ![c] = "hit"]
            /\ invoked' = [invoked EXCEPT ![c] = 0]
            /\ UNCHANGED <<misses, pc, computing>>
       ELSE /\ misses' = misses + 1
            /\ result' = [result EXCEPT ![c] = NoResult]
            /\ outcome' = [outcome EXCEPT ![c] = "none"]
            /\ invoked' = [invoked EXCEPT ![c] = 1]
            /\ pc' = [pc EXCEPT ![c] = "compute"]
            /\ computing' = computing + 1
            /\ UNCHANGED hits
    /\ UNCHANGED <<params, inputs, loaded, cache, full, root, links, lock, link, oldroot,
                   oldkey, recency, hist, first>>

\* line 96 left out: the result is returned but not stored
StoreNothing(d, k, r) == d

\* the result is stored only when the key is not there yet
StoreIfAbsent(d, k, r) == IF Has(d, k) THEN d ELSE Put(d, k, r)

\* line 96: cache[key] = result
Store(d, k, r) == Put(d, k, r)

\* lines 95-97: user_function completes, the result is stored and returned
UnbStore(c, v) ==
    /\ pc[c] = "compute"
    /\ result' = [result EXCEPT ![c] = <<key[c], v>>]
    /\ cache' = Store(cache, key[c], <<key[c], v>>)
    /\ pc' = [pc EXCEPT ![c] = "idle"]
    /\ outcome' = [outcome EXCEPT ![c] = "miss"]
    /\ stale' = stale \ {key[c]}
    /\ first' = IF ~repeat[c] /\ ~Has(first, key[c])
                THEN Put(first, key[c], <<key[c], v>>)
                ELSE first
    /\ UNCHANGED <<params, inputs, loaded, hits, misses, full, root, links, lock, key, link,
                   oldroot, oldkey, nOps, counts, recency, cleared, called,
                   repeat, invoked>>

UnbResume(c, v) == AtAwait(c) /\ UnbStore(c, v)

\* line 81, line 95: user_function raises, or the call is cancelled
RaiseAtAwait(c) == AtAwait(c) /\ Raise(c)

\* ------------------------------------- the wrappers without ordering, by threads
\* Threads interleave between any two bytecodes.  These two wrappers take no
\* lock: `misses += 1` and `hits += 1` are a read of the counter followed by
\* a write of the value read plus one.

\* lines 77-80: the call starts and reads misses
ThZeroCall(c, k) ==
    /\ Idle(c) /\ Budget
    /\ loaded' = [loaded EXCEPT ![c] = misses]
    /\ pc' = [pc EXCEPT ![c] = "count_miss"]
    /\ key' = [key EXCEPT ![c] = k]
    /\ result' = [result EXCEPT ![c] = NoResult]
    /\ outcome' = [outcome EXCEPT ![c] = "none"]
    /\ invoked' = [invoked EXCEPT ![c] = 0]
    /\ nOps' = nOps + 1
    /\ started' = started + 1
    /\ UNCHANGED <<params, inputs, shared, lock, link, oldroot, oldkey, looked,
                   computing, recency, hist, unb>>

\* lines 80-81, lines 94-95: misses is written and user_function is invoked
ThCountMiss(c) ==
    /\ pc[c] = "count_miss"
    /\ misses' = loaded[c] + 1
    /\ pc' = [pc EXCEPT ![c] = "compute"]
    /\ invoked' = [invoked EXCEPT ![c] = 1]
    /\ looked' = looked + 1
    /\ computing' = computing + 1
    /\ UNCHANGED <<params, inputs, cache, hits, full, root, links, lock, key,
                   result, link, oldroot, oldkey, loaded, outcome, nOps,
                   started, recency, hist, unb>>

\* lines 89-92, 94: the key is looked up and the counter to add to is read
ThUnbCall(c, k) ==
    /\ Idle(c) /\ Budget
    /\ key' = [key EXCEPT ![c] = k]
    /\ outcome' = [outcome EXCEPT ![c] = "none"]
    /\ invoked' = [invoked EXCEPT ![c] = 0]
    /\ nOps' = nOps + 1
    /\ started' = started + 1
    /\ IF Has(cache, k)
       THEN /\ result' = [result EXCEPT ![c] = cache[k]]
            /\ loaded' = [loaded EXCEPT ![c] = hits]
            /\ pc' = [pc EXCEPT ![c] = "count_hit"]
       ELSE /\ result' = [result EXCEPT ![c] = NoResult]
            /\ loaded' = [loaded EXCEPT ![c] = misses]
            /\ pc' = [pc EXCEPT ![c] = "count_miss"]
    /\ UNCHANGED <<params, inputs, shared, lock, link, oldroot, oldkey, looked,
                   computing, recency, hist, unb>>

\* lines 92-93: hits is written and the stored result is returned
ThCountHit(c) ==
    /\ pc[c] = "count_hit"
    /\ hits' = loaded[c] + 1
    /\ pc' = [pc EXCEPT ![c] = "idle"]
    /\ outcome' = [outcome EXCEPT ![c] = "hit"]
    /\ looked' = looked + 1
    /\ UNCHANGED <<params, inputs, cache, misses, full, root, links, lock, key,
                   result, link, oldroot, oldkey, loaded, nOps, started,
                   computing, invoked, recency, hist, unb>>

\* ------------------------------------------------------------ specifications
Stats(c) ==
    \/ InfoStart(c)
    \/ cache_info(c)
    \/ ClearStart(c)
    \/ ClearDict(c)
    \/ cache_clear(c)

NextZero ==
    \E c \in Callers :
        \/ \E k \in Keys : ZeroCall(c, k)
        \/ \E v \in 1..NumVers : ZeroResume(c, v)
        \/ RaiseAtAwait(c)
        \/ Stats(c)

NextUnbounded ==
    \E c \in Callers :
        \/ \E k \in Keys : UnbCall(c, k)
        \/ \E v \in 1..NumVers : UnbResume(c, v)
        \/ RaiseAtAwait(c)
        \/ Stats(c)

NextBounded ==
    \E c \in Callers :
        \/ \E k \in Keys : Call(c, k)
        \/ AcquireLookup(c)
        \/ Lookup(c)
        \/ Promote(c)
        \/ \E v \in 1..NumVers : Resume(c, v)
        \/ Raise(c)
        \/ AcquireInsert(c)
        \/ Insert(c)
        \/ EvictDict(c)
        \/ SetFull(c)
        \/ Stats(c)

\* a call is given by its key alone: the arguments are not looked at
ByKey ==
    /\ typed = FALSE /\ weak_self = FALSE /\ method = FALSE
    /\ args = [c \in Callers |-> <<>>]
    /\ kwds = [c \in Callers |-> <<>>]

InitZero      == Init /\ ByKey /\ maxsize = 0
InitUnbounded == Init /\ ByKey /\ maxsize = Unbounded
InitBounded   == Init /\ ByKey /\ maxsize \in 1..MaxMaxsize

SpecZero      == InitZero /\ [][NextZero]_vars
SpecUnbounded == InitUnbounded /\ [][NextUnbounded]_vars
SpecBounded   == InitBounded /\ [][NextBounded]_vars

\* Fair scheduling of the bounded mode.  A caller inside a locked section
\* runs on (the sections are straight-line code); a caller waiting at a
\* `with lock:` gets the lock if it is free again and again.  Nothing makes
\* user_function complete, and nothing makes a caller start an operation.
Acquire(c) == AcquireLookup(c) \/ AcquireInsert(c)
Section(c) ==
    \/ Lookup(c) \/ Promote(c)
    \/ Insert(c) \/ EvictDict(c) \/ SetFull(c)
    \/ cache_info(c) \/ ClearDict(c) \/ cache_clear(c)
Fairness ==
    \A c \in Callers : SF_vars(Acquire(c)) /\ WF_vars(Section(c))
\* behaviours of at most FairOps operations
NextFair == NextBounded /\ nOps' <= FairOps
SpecFair == InitBounded /\ [][NextFair]_vars /\ Fairness

\* every mode: maxsize is fixed when the wrapper is built
Next ==
    \/ maxsize = 0 /\ NextZero
    \/ maxsize = Unbounded /\ NextUnbounded
    \/ maxsize > 0 /\ NextBounded

Spec == (InitZero \/ InitUnbounded \/ InitBounded) /\ [][Next]_vars

NextZeroThreads ==
    \E c \in Callers :
        \/ \E k \in Keys : ThZeroCall(c, k)
        \/ ThCountMiss(c)
        \/ \E v \in 1..NumVers : ZeroReturn(c, v)
        \/ Raise(c)
        \/ Stats(c)

NextUnboundedThreads ==
    \E c \in Callers :
        \/ \E k \in Keys : ThUnbCall(c, k)
        \/ ThCountMiss(c)
        \/ ThCountHit(c)
        \/ \E v \in 1..NumVers : UnbStore(c, v)
        \/ Raise(c)
        \/ Stats(c)

\* every mode, callers that are threads
NextThreads ==
    \/ maxsize = 0 /\ NextZeroThreads
    \/ maxsize = Unbounded /\ NextUnboundedThreads
    \/ maxsize > 0 /\ NextBounded

SpecThreads == (InitZero \/ InitUnbounded \/ InitBounded) /\ [][NextThreads]_vars

\* --------------------------------------- sequential calls f(1), f(2), f(1), f(3)
Script == <<1, 2, 1, 3>>   \* the keys of the calls, made one after the other
AllIdle == \A c \in Callers : Idle(c)

\* line 104: the next call of the script starts when the one before returned
SeqCall(c) == AllIdle /\ started < Len(Script) /\ Call(c, Script[started + 1])

\* line 159: cache_info is called between two calls or after the last one
SeqInfoStart(c) ==
    /\ AllIdle /\ CanAcquire(c)
    /\ lock' = c
    /\ pc' = [pc EXCEPT ![c] = "info"]
    /\ key' = [key EXCEPT ![c] = None]
    /\ result' = [result EXCEPT ![c] = NoResult]
    /\ outcome' = [outcome EXCEPT ![c] = "none"]
    /\ invoked' = [invoked EXCEPT ![c] = 0]
    /\ UNCHANGED <<params, inputs, shared, link, oldroot, oldkey, loaded, nOps,
                   ghost>>

NextSeq ==
    \E c \in Callers :
        \/ SeqCall(c)
        \/ AcquireLookup(c)
        \/ Lookup(c)
        \/ Promote(c)
        \/ \E v \in 1..NumVers : Resume(c, v)
        \/ AcquireInsert(c)
        \/ Insert(c)
        \/ EvictDict(c)
        \/ SetFull(c)
        \/ SeqInfoStart(c)
        \/ cache_info(c)

\* maxsize=2, typed=False, a fresh cache
InitSeq == Init /\ ByKey /\ maxsize = 2
SpecSeq == InitSeq /\ [][NextSeq]_vars

\* --------------------------------------------------- arguments and make_key
\* A Python object is <<type, which one>>.  1 and 1.0 are two objects of
\* different types that compare equal and hash alike.
PyInt(n)  == <<"int", n>>
PyFloat(n) == <<"float", n>>
PyStr(n)  == <<"str", n>>          \* the n-th keyword name
Obj(n)    == <<"object", n>>       \* an instance of the class of the method
Ref(o)    == <<"weakref", o[2]>>   \* weakref.ref(o)
Type(v)   == <<"type", v[1]>>      \* type(v)
NewObj(n) == <<"result", n>>       \* an object user_function builds
kwd_mark  == <<"kwd_mark", "object">>
fasttypes == {"int", "str"}
Receiver  == Obj(1)

Vals     == {PyInt(1), PyFloat(1)}
Names    == {PyStr(n) : n \in 1..NumNames}
ArgLists == UNION {[1..n -> Vals] : n \in 0..MaxArgs}
\* keyword arguments in the order the call gives them: <<name, value>> items
KwLists  ==
    {kw \in UNION {[1..n -> Names \X Vals] : n \in 0..NumNames} :
        \A i, j \in 1..Len(kw) : kw[i][1] = kw[j][1] => i = j}

\* kwds.items() flattened: name, value, name, value, ...
Items(kw) ==
    [i \in 1..(2 * Len(kw)) |->
        IF i % 2 = 1 THEN kw[(i + 1) \div 2][1] ELSE kw[i \div 2][2]]

\* functools._make_key(args, kwds, typed): the argument itself when it is the
\* only one and an int or a str, a _HashedSeq of the flattened arguments
\* (followed by their types when typed) otherwise
make_key(a, kw, t) ==
    LET key1 == IF kw /= <<>> THEN a \o <<kwd_mark>> \o Items(kw) ELSE a
        key2 == IF t
                THEN key1 \o [i \in 1..Len(a) |-> Type(a[i])]
                          \o [i \in 1..Len(kw) |-> Type(kw[i][2])]
                ELSE key1
    IN  IF ~t /\ Len(key1) = 1 /\ key1[1][1] \in fasttypes
        THEN <<"bare", key1>>
        ELSE <<"_HashedSeq", key2>>

\* what a dict tells keys apart by, hash and ==: an int and a float of equal
\* value are the same element of a key, a bare argument is never equal to a
\* _HashedSeq
Hashed(v)  == IF v[1] \in {"int", "float"} THEN <<"number", v[2]>> ELSE v
DictKey(k) == <<k[1], [i \in 1..Len(k[2]) |-> Hashed(k[2][i])]>>

\* lines 26-35: the decorator takes the branch that hides self in a weakref
WeakBound == weak_self /\ method

\* self is passed on as it is
StrongArgs(c) == args[c]

\* lines 44-45 (_weak_wrapper(weakref.ref(self), *args, **kwargs)), line 51
InnerArgs(c) ==
    IF WeakBound THEN <<Ref(args[c][1])>> \o Tail(args[c]) ELSE args[c]

\* typed is not passed on
CallKeyUntyped(c) == DictKey(make_key(InnerArgs(c), kwds[c], FALSE))

\* the items sorted by name
SortedKw(kw) ==
    CHOOSE s \in [1..Len(kw) -> SeqSet(kw)] :
        /\ SeqSet(s) = SeqSet(kw)
        /\ \A i, j \in 1..Len(kw) : i < j => s[i][1][2] < s[j][1][2]

\* the keyword arguments are sorted before the key is built
CallKeySorted(c) == DictKey(make_key(InnerArgs(c), SortedKw(kwds[c]), typed))

\* line 89: key = make_key(args, kwds, typed)
CallKey(c) == DictKey(make_key(InnerArgs(c), kwds[c], typed))

\* line 40: what func is called with, self_ref() being the receiver
FuncArgs(c) == args[c]

\* what user_function can return: a new object or one of its arguments
Returnable(c) == {NewObj(n) : n \in 1..NumVers} \cup SeqSet(FuncArgs(c))

\* lines 86-95, calls made one after the other
KeyedCall(c) == AllIdle /\ nOps < KeyedOps /\ UnbCall(c, CallKey(c))

\* lines 95-97
KeyedResume(c) == \E v \in Returnable(c) : UnbResume(c, v)

NextKeys == \E c \in Callers : KeyedCall(c) \/ KeyedResume(c)

InitKeys ==
    /\ Init /\ maxsize = Unbounded
    /\ typed \in BOOLEAN /\ weak_self \in BOOLEAN /\ method \in BOOLEAN
    /\ args \in [Callers -> IF method
                             THEN {<<Receiver>> \o a : a \in ArgLists}
                             ELSE ArgLists]
    /\ kwds \in [Callers -> KwLists]

SpecKeys == InitKeys /\ [][NextKeys]_vars

\* ----------------------------------------------------------- sanity of the model
\* the heap has an address left whenever line 150 builds a new link
HeapSuffices ==
    \A c \in Callers :
        (pc[c] = "insert" /\ ~KeyPresent(c) /\ ~full) => FreeIds /= {}

\* line 142 never raises KeyError
NoKeyError == \A c \in Callers : outcome[c] /= "KeyError"

\* ------------------------------------------------------------------- claims
Quiet == lock = 0    \* no caller is inside a locked section

\* C1: bounded mode, no caller inside a locked section: the keys of the dict
\* are exactly the keys met walking the list from root, no key twice, root
\* holds no key, and the dict holds at most maxsize keys.
C1_DictMatchesList ==
    Quiet =>
        /\ DOMAIN cache = SeqSet(Walk)
        /\ Len(Walk) = cache_len
        /\ links[root].key = None
        /\ \A k \in DOMAIN cache : links[cache[k]].key = k
        /\ cache_len <= maxsize

\* a full cache of two keys while another caller is suspended in user_function
C1_Witness ==
    /\ Quiet /\ maxsize = 2 /\ cache_len = 2 /\ Len(Walk) = 2
    /\ \E c \in Callers : pc[c] = "compute"

\* inside a locked section the list and the dict do disagree
C1_BrokenInsideLock == ~Quiet /\ DOMAIN cache /= SeqSet(Walk)

\* the steps of the code that are inside a `with lock:` block
Locked == {"lookup", "promote", "insert", "evict", "set_full", "info",
           "clear", "clear_stats"}

\* C2: bounded mode: a caller suspended in user_function (or waiting to enter
\* a locked section, or not running) never owns the lock; the lock is owned
\* exactly by a caller that is in the lookup-and-promote step, the insert
\* step, cache_info or cache_clear.
C2_NoLockWhileComputing ==
    \A c \in Callers :
        /\ pc[c] = "compute" => lock /= c
        /\ lock = c <=> pc[c] \in Locked

\* one caller is suspended in user_function while another one owns the lock
C2_Witness ==
    \E c, d \in Callers : pc[c] = "compute" /\ lock = d /\ pc[d] = "insert"

Last(s) == s[Len(s)]
\* caller c takes the `elif full:` branch / finishes it
FullInsertStep(c) == pc[c] = "insert" /\ pc'[c] = "evict"
EvictStep(c)      == pc[c] = "evict" /\ pc'[c] = "idle"

\* C3: bounded mode: an insertion of a new key that finds the store full
\* (size = maxsize) evicts exactly one key, the stored key whose last hit or
\* insertion (in the order of the locked steps) is the oldest; the new key
\* becomes the most recently used one and the size stays maxsize.
C3_EvictsLeastRecent ==
    [][\A c \in Callers :
        /\ FullInsertStep(c) =>
              /\ cache_len = maxsize /\ ~Has(cache, key[c])
              /\ recency /= <<>> /\ oldkey'[c] = Head(recency)
        /\ EvictStep(c) =>
              /\ oldkey[c] = Head(recency) /\ oldkey[c] /= key[c]
              /\ DOMAIN cache' = (DOMAIN cache \ {Head(recency)}) \cup {key[c]}
              /\ cache_len' = maxsize /\ cache_len = maxsize
              /\ SeqSet(WalkOf(links', root')) = DOMAIN cache'
              /\ Last(WalkOf(links', root')) = key[c]
              /\ links'[cache'[key[c]]].result = result[c]
              /\ outcome'[c] = "miss_evict"
      ]_vars

\* maxsize = 2: keys 1, 2, 3 were inserted in this order with no hit, and the
\* third insertion evicted key 1
C3_Witness ==
    /\ maxsize = 2 /\ hits = 0 /\ misses = 3 /\ recency = <<2, 3>>
    /\ DOMAIN cache = {2, 3} /\ Quiet
    /\ \E c \in Callers : outcome[c] = "miss_evict" /\ key[c] = 3

\* caller c finds its key in the dict / returns the stored result
HitStep(c)       == pc[c] = "lookup" /\ pc'[c] = "promote"
HitReturnStep(c) == pc[c] = "promote" /\ pc'[c] = "idle"

\* C4: bounded mode: a hit returns the stored result without invoking
\* user_function, adds one to hits, moves the entry right before root and
\* leaves the stored keys, every stored result, the size, misses and full as
\* they were; the list is always ordered by the last hit or insertion, so
\* after a hit on the older of two keys the next eviction takes the other.
C4_HitPromotes ==
    /\ [][\A c \in Callers :
            /\ HitStep(c) =>
                  /\ Has(cache, key[c])
                  /\ result'[c] = links[cache[key[c]]].result
                  /\ <<key[c], result'[c]>> \in SeqSet(Entries)
                  /\ EntriesOf(links', root') =
                        SelectSeq(Entries, LAMBDA e : e[1] /= key[c])
                  /\ UNCHANGED <<cache, hits, misses, full, root, invoked>>
            /\ HitReturnStep(c) =>
                  /\ EntriesOf(links', root') =
                        Append(Entries, <<key[c], result[c]>>)
                  /\ links'[root'].prev = cache[key[c]]
                  /\ hits' = hits + 1
                  /\ result'[c] = result[c] /\ outcome'[c] = "hit"
                  /\ invoked'[c] = 0
                  /\ UNCHANGED <<cache, misses, full, root, computing>>
        ]_vars
    /\ [](Quiet => Walk = recency)

\* maxsize = 2: after keys 1 and 2 were stored, a hit on 1 and the insertion
\* of 3, the stored keys are 1 and 3: key 2 was evicted
C4_Witness ==
    /\ maxsize = 2 /\ hits = 1 /\ misses = 3 /\ Walk = <<1, 3>>
    /\ DOMAIN cache = {1, 3} /\ Quiet
    /\ \E c \in Callers : outcome[c] = "miss_evict" /\ key[c] = 3
    /\ \E c \in Callers : outcome[c] = "hit" /\ key[c] = 1

\* caller c, back in the locked section after its computation, finds its key
PresentStep(c) == pc[c] = "insert" /\ pc'[c] = "idle"

\* C5: bounded mode: a call that missed and finds its key in the dict when it
\* comes back with its result changes nothing: the dict, the links (so every
\* stored result and the order of the list), the size, full, hits and misses
\* stay as they were, and the call returns the result it computed itself.
C5_PresentKeyNoChange ==
    [][\A c \in Callers :
        (pc[c] = "insert" /\ pc'[c] /= "insert" /\ Has(cache, key[c])) =>
            /\ PresentStep(c)
            /\ UNCHANGED <<cache, links, root, full, hits, misses, recency>>
            /\ result'[c] = result[c] /\ result[c][1] = key[c]
            /\ outcome'[c] = "miss_present"
      ]_vars

\* a call returned its own result while the dict keeps the result of the call
\* that stored the key first
C5_Witness ==
    \E c \in Callers :
        /\ outcome[c] = "miss_present" /\ Quiet
        /\ Has(cache, key[c])
        /\ links[cache[key[c]]].result /= result[c]
        /\ result[c][1] = key[c]

\* caller c misses at its lookup / returns after its insert step
MissStep(c)    == pc[c] = "lookup" /\ pc'[c] = "compute"
InFlight       == {"compute", "insert_lock", "insert", "evict", "set_full"}
StoredStep(c)  == pc[c] \in {"insert", "evict", "set_full"} /\ pc'[c] = "idle"
Count(s, k)    == Cardinality({i \in DOMAIN s : s[i] = k})

\* C6: bounded mode, no coalescing: every call that does not find its key at
\* its lookup, whatever other calls for the same key are in flight, adds one
\* to misses and invokes user_function once; when such a call returns, the
\* dict holds its key and the list holds exactly one link for it.
C6_NoCoalescing ==
    /\ [][\A c \in Callers :
            /\ (pc[c] = "lookup" /\ pc'[c] /= "lookup" /\ ~Has(cache, key[c])) =>
                  /\ MissStep(c)
                  /\ misses' = misses + 1 /\ computing' = computing + 1
                  /\ invoked'[c] = 1
            /\ StoredStep(c) =>
                  /\ Has(cache', key[c])
                  /\ Count(WalkOf(links', root'), key[c]) = 1
                  /\ links'[cache'[key[c]]].key = key[c]
        ]_vars
    /\ [](\A c \in Callers : pc[c] \in InFlight => invoked[c] = 1)

\* two calls for the same key both missed and both computed; the first stored
\* the key, the second found it: one entry
C6_Witness ==
    \E c, d \in Callers :
        /\ c /= d /\ key[c] = key[d] /\ Quiet
        /\ outcome[c] = "miss_new" /\ outcome[d] = "miss_present"
        /\ invoked[c] = 1 /\ invoked[d] = 1
        /\ nOps = 2 /\ misses = 2 /\ computing = 2 /\ hits = 0
        /\ Walk = <<key[c]>> /\ DOMAIN cache = {key[c]}

\* caller c's computation fails or is cancelled
RaiseStep(c) == pc[c] = "compute" /\ pc'[c] = "idle" /\ outcome'[c] = "raised"

\* C7 as stated: after the failure of a call for key k the failure reaches the
\* caller, misses keeps the miss, nothing was stored or evicted, and the dict
\* holds no entry for k.
C7_Original ==
    [][\A c \in Callers :
        RaiseStep(c) =>
            /\ misses' = misses /\ invoked[c] = 1
            /\ UNCHANGED <<cache, links, root, full, hits>>
            /\ ~Has(cache', key[c])
      ]_vars

\* C7 (amended): after the failure of a call for key k the failure reaches the
\* caller, misses keeps the miss, and the call has stored and evicted nothing:
\* dict and list are as they were, so an entry for k exists afterwards only
\* if another call stored it.
C7_FailureStoresNothing ==
    [][\A c \in Callers :
        (pc[c] = "compute" /\ pc'[c] = "idle") =>
            /\ RaiseStep(c)
            /\ result'[c] = NoResult
            /\ misses' = misses /\ invoked[c] = 1
            /\ UNCHANGED <<cache, links, root, full, hits, recency>>
      ]_vars

\* a call failed after its miss was counted and left no entry for its key
C7_Witness ==
    \E c \in Callers :
        /\ outcome[c] = "raised" /\ misses = 1 /\ nOps = 1
        /\ ~Has(cache, key[c]) /\ Walk = <<>>

\* caller c finishes cache_clear / finishes its lookup
ClearDoneStep(c) == pc[c] = "clear_stats" /\ pc'[c] = "idle"
LookupStep(c)    == pc[c] = "lookup" /\ pc'[c] /= "lookup"

\* C8 as stated: cache_clear zeroes hits, misses and the size, and every later
\* lookup of a key that a cache_clear removed is a miss that invokes
\* user_function.
C8_Original ==
    [][\A c \in Callers :
        /\ ClearDoneStep(c) => hits' = 0 /\ misses' = 0 /\ cache_len' = 0
        /\ (LookupStep(c) /\ key[c] \in cleared) =>
              MissStep(c) /\ invoked'[c] = 1
      ]_vars

\* C8 (amended): cache_clear zeroes hits, misses and the size (empty dict,
\* empty list, full false), and a later lookup of a key that a cache_clear
\* removed is a miss that invokes user_function as long as no call, one in
\* flight during the clear included, has stored that key again.
C8_ClearEmpties ==
    [][\A c \in Callers :
        /\ ClearDoneStep(c) =>
              /\ hits' = 0 /\ misses' = 0 /\ cache_len' = 0 /\ ~full'
              /\ WalkOf(links', root') = <<>>
        /\ (LookupStep(c) /\ key[c] \in stale) =>
              MissStep(c) /\ invoked'[c] = 1 /\ misses' = misses + 1
      ]_vars

\* after a cache_clear, a call for a key that had been stored missed and is
\* computing it again
C8_Witness ==
    \E c, d \in Callers :
        /\ outcome[c] = "cleared" /\ hits = 0 /\ misses = 1 /\ cache_len = 0
        /\ pc[d] = "compute" /\ key[d] \in stale /\ invoked[d] = 1

Wrapped(c) == outcome[c] \in {"none", "hit", "miss", "raised"}

\* caller c's computation completes and its result is stored
StoreStep(c) == pc[c] = "compute" /\ pc'[c] = "idle" /\ outcome'[c] = "miss"

\* C10 as stated: maxsize is None: a call that is not the first call for its
\* key does not invoke user_function and returns the object that the first
\* call returned.
C10_Original ==
    \A c \in Callers :
        (repeat[c] /\ Wrapped(c)) =>
            /\ invoked[c] = 0
            /\ (outcome[c] \in {"hit", "miss"} /\ Has(first, key[c])) =>
                  result[c] = first[key[c]]

\* C10 (amended): maxsize is None: a call made while its key is stored returns
\* the stored object without invoking user_function, a call made while it is
\* not stored invokes it; the object stored for a key changes only when a call
\* for that key that missed completes or by cache_clear; the size grows by
\* one when a key that is not stored is stored and shrinks only by
\* cache_clear.
C10_StoredKeyIsHit ==
    [][/\ started' = started + 1 =>
            \E c \in Callers :
                /\ Idle(c)
                /\ \A d \in Callers \ {c} :
                      /\ key'[d] = key[d] /\ result'[d] = result[d]
                      /\ outcome'[d] = outcome[d] /\ invoked'[d] = invoked[d]
                /\ cache' = cache
                /\ IF Has(cache, key'[c])
                   THEN /\ outcome'[c] = "hit" /\ pc'[c] = "idle"
                        /\ result'[c] = cache[key'[c]]
                        /\ invoked'[c] = 0 /\ computing' = computing
                        /\ hits' = hits + 1 /\ misses' = misses
                   ELSE /\ pc'[c] = "compute" /\ invoked'[c] = 1
                        /\ computing' = computing + 1
                        /\ misses' = misses + 1 /\ hits' = hits
       /\ \A k \in DOMAIN cache :
            (~Has(cache', k) \/ cache'[k] /= cache[k]) =>
                \/ \E c \in Callers : pc[c] = "clear"
                \/ \E c \in Callers :
                      /\ pc[c] = "compute" /\ key[c] = k /\ pc'[c] = "idle"
                      /\ cache'[k] = result'[c]
       /\ IF \E c \in Callers : pc[c] = "clear"
          THEN cache_len' = 0
          ELSE IF \E c \in Callers : StoreStep(c)
          THEN \A c \in Callers :
                  StoreStep(c) =>
                      /\ DOMAIN cache' = DOMAIN cache \cup {key[c]}
                      /\ cache'[key[c]] = result'[c]
                      /\ result'[c][1] = key[c]
          ELSE cache' = cache
      ]_vars

\* two keys are stored and a second call for one of them returned, without
\* invoking user_function, the object that the first call returned
C10_Witness ==
    \E c \in Callers :
        /\ outcome[c] = "hit" /\ repeat[c] /\ invoked[c] = 0
        /\ Has(first, key[c])
        /\ result[c] = first[key[c]] /\ result[c] = cache[key[c]]
        /\ cache_len = 2

\* C11 as stated: callers that are threads, every mode: every write of the
\* dict, of the list and of the counters is made while the lock is held, and
\* no update of a counter is lost: misses counts every computation started
\* and hits + misses every lookup finished since the last cache_clear.
C11_Original ==
    /\ [][shared' /= shared => lock /= 0]_vars
    /\ [](misses = computing /\ hits + misses = looked)

\* the lost update alone: two threads counted their miss and misses is 1
C11_LostUpdate == computing = 2 /\ misses = 1 /\ cleared = {} /\ nOps = 2

\* what each call of the script is: miss, miss, hit, miss (with an eviction)
Expected == <<"miss_new", "miss_new", "hit", "miss_evict">>
\* caller c's call of the wrapper returns
ReturnStep(c) == pc[c] \notin {"idle", "info"} /\ pc'[c] = "idle"
\* caller c's call of cache_info returns
InfoReturnStep(c) == pc[c] = "info" /\ pc'[c] = "idle"

\* C12: maxsize=2, the calls f(1), f(2), f(1), f(3) made one after the other
\* on a fresh cache are a miss, a miss, a hit and a miss; after them the stored
\* keys are 1 and 3 and cache_info reports hits=1, misses=3, maxsize=2,
\* currsize=2.
C12_Scenario ==
    /\ [][\A c \in Callers :
            /\ ReturnStep(c) =>
                  /\ outcome'[c] = Expected[started]
                  /\ key[c] = Script[started]
                  /\ result'[c] /= NoResult /\ result'[c][1] = key[c]
            /\ (InfoReturnStep(c) /\ started = Len(Script)) =>
                  result'[c] = <<1, 3, 2, 2>>
        ]_vars
    /\ []((AllIdle /\ started = Len(Script)) =>
              /\ DOMAIN cache = {1, 3} /\ SeqSet(Walk) = {1, 3}
              /\ hits = 1 /\ misses = 3 /\ cache_len = 2
              /\ computing = 3)

\* cache_info was called after the four calls
C12_Witness ==
    \E c \in Callers :
        /\ outcome[c] = "info" /\ started = Len(Script) /\ AllIdle
        /\ result[c] = <<1, 3, 2, 2>> /\ DOMAIN cache = {1, 3}
        /\ hits = 1 /\ misses = 3

\* callers c and d have each made one call, one after the other, and no other
\* call was made
Both(c, d) ==
    /\ c /= d /\ nOps = 2 /\ AllIdle
    /\ outcome[c] \in {"hit", "miss"} /\ outcome[d] \in {"hit", "miss"}
\* Python's ==
PyEq(v, w) == Hashed(v) = Hashed(w)
\* the two calls have the same keyword names in the same order and arguments
\* that compare equal
SameValues(c, d) ==
    /\ Len(args[c]) = Len(args[d]) /\ Len(kwds[c]) = Len(kwds[d])
    /\ \A i \in 1..Len(args[c]) : PyEq(args[c][i], args[d][i])
    /\ \A i \in 1..Len(kwds[c]) :
          kwds[c][i][1] = kwds[d][i][1] /\ PyEq(kwds[c][i][2], kwds[d][i][2])
\* some argument of the one call is of another type than in the other call
TypesDiffer(c, d) ==
    \/ \E i \in 1..Len(args[c]) : args[c][i][1] /= args[d][i][1]
    \/ \E i \in 1..Len(kwds[c]) : kwds[c][i][2][1] /= kwds[d][i][2][1]
OneEntry   == cache_len = 1 /\ misses = 1 /\ hits = 1
TwoEntries == cache_len = 2 /\ misses = 2 /\ hits = 0
\* the call has one argument in all, and it is an int or a str
BareArg(c) ==
    Len(args[c]) = 1 /\ kwds[c] = <<>> /\ args[c][1][1] \in {"int", "str"}

SamePairs(c, d) == args[c] = args[d] /\ SeqSet(kwds[c]) = SeqSet(kwds[d])

InKey(o)   == \E k \in DOMAIN cache : \E i \in 1..Len(k[2]) : k[2][i] = o
InValue(o) == \E k \in DOMAIN cache : cache[k][2] = o
\* caller c's call returned the receiver
ReturnedSelf(c) == outcome[c] \in {"hit", "miss"} /\ result[c][2] = Receiver

UnbHitStep == hits' = hits + 1

\* C17: maxsize is None: a call that missed stores its result when its
\* computation completes, whatever is stored for the key by then: the entry
\* of a key is the result of the call for it that completed last, a key that
\* was stored already is not counted again in the size, and a hit returns the
\* entry as it is at the time of the call.
C17_LastWriterWins ==
    [][/\ \A c \in Callers :
            StoreStep(c) =>
                /\ Has(cache', key[c]) /\ cache'[key[c]] = result'[c]
                /\ result'[c][1] = key[c]
                /\ cache_len' =
                      cache_len + (IF Has(cache, key[c]) THEN 0 ELSE 1)
                /\ \A k \in DOMAIN cache \ {key[c]} :
                      Has(cache', k) /\ cache'[k] = cache[k]
       /\ UnbHitStep =>
            \E c \in Callers :
                /\ Idle(c) /\ pc'[c] = "idle" /\ outcome'[c] = "hit"
                /\ Has(cache, key'[c]) /\ result'[c] = cache[key'[c]]
                /\ cache' = cache /\ invoked'[c] = 0
                /\ \A d \in Callers \ {c} :
                      key'[d] = key[d] /\ result'[d] = result[d]
      ]_vars

\* two calls for one key were in flight together and both completed; the
\* entry is not what the first call returned, and a third call got the entry
C17_Witness ==
    \E c, d \in Callers :
        /\ c /= d /\ key[c] = key[d] /\ Has(cache, key[c]) /\ Has(first, key[c])
        /\ outcome[c] = "hit" /\ outcome[d] = "miss"
        /\ cache[key[c]] /= first[key[c]]
        /\ result[c] = cache[key[c]] /\ result[d] = cache[key[c]]
        /\ misses = 2 /\ hits = 1 /\ cache_len = 1 /\ nOps = 3

\* C18: bounded mode, no caller inside a locked section: full is true exactly
\* when the dict holds maxsize keys; cache_clear leaves full false and the
\* dict empty; the `elif full:` branch is taken only when the list holds a
\* link besides root, whose key is in the dict.
C18_FullIffAtCapacity ==
    /\ [](Quiet => (full <=> cache_len = maxsize))
    /\ [][\A c \in Callers :
            /\ ClearDoneStep(c) => ~full' /\ cache_len' = 0 /\ Quiet'
            /\ FullInsertStep(c) =>
                  /\ full /\ Len(Walk) >= 1
                  /\ Oldest(links, root) /= root
                  /\ Has(cache, links[Oldest(links, root)].key)
            /\ EvictStep(c) => outcome'[c] /= "KeyError"
        ]_vars

\* maxsize=1: a key was stored and cleared, another was stored, a third one
\* evicted it
C18_Witness ==
    /\ Quiet /\ full /\ cache_len = maxsize /\ cleared /= {}
    /\ \E c \in Callers : outcome[c] = "miss_evict"

\* the operation caller c has finished was a call that returned a result
Returned(c) ==
    /\ Idle(c)
    /\ outcome[c] \in {"hit", "miss", "miss_new", "miss_present", "miss_evict"}

\* what the dict holds for key k: the stored result, and the key kept with it
\* (the link's KEY field; the unbounded dict keeps none besides the dict key)
StoredResult(k) ==
    IF maxsize = Unbounded THEN cache[k] ELSE links[cache[k]].result
StoredKey(k) ==
    IF maxsize = Unbounded THEN k ELSE links[cache[k]].key

\* C19: bounded and unbounded mode: while no caller is inside a locked
\* section, every dict entry under key k is a link whose KEY is k and whose
\* RESULT was produced by user_function called for k; every call that has
\* returned, hit or miss, returned a result produced for its own key.
C19_ResultsMatchKeys ==
    maxsize /= 0 =>
        /\ Quiet => \A k \in DOMAIN cache :
                        /\ StoredKey(k) = k
                        /\ StoredResult(k) /= NoResult
                        /\ StoredResult(k)[1] = k
        /\ \A c \in Callers :
              Returned(c) => result[c] /= NoResult /\ result[c][1] = key[c]

\* bounded mode: after an eviction reused the oldest link in place, a call
\* for the new key is a hit while another key is stored as well
C19_Witness ==
    /\ maxsize = 2 /\ cache_len = 2 /\ Quiet /\ misses = 3
    /\ \E c, d \in Callers :
          /\ c /= d /\ Returned(c) /\ Returned(d)
          /\ outcome[c] = "miss_evict" /\ outcome[d] = "hit"
          /\ key[d] = key[c] /\ result[d] = result[c]

\* caller c waits at a `with lock:` / is inside a locked section
Waiting(c)   == pc[c] \in {"lookup_lock", "insert_lock"}
InSection(c) == pc[c] \in {"lookup", "promote", "insert", "evict", "set_full",
                           "info", "clear", "clear_stats"}

\* C20: bounded mode, callers of the wrapper, cache_info and cache_clear:
\* whenever a caller waits for the lock or is inside a locked section, a step
\* of a caller that is not suspended in user_function is possible (no
\* deadlock, and no progress depends on a computation completing); under fair
\* scheduling every call whose computation has completed returns, every
\* locked section is left, and every call that has started gets its lookup
\* done: it returns as a hit or reaches user_function, however long the
\* computations of the other callers stay suspended.
C20_NoDeadlock ==
    /\ [](\A c \in Callers :
            Waiting(c) \/ InSection(c) =>
                \E d \in Callers :
                    /\ pc[d] /= "compute"
                    /\ ENABLED (Acquire(d) \/ Section(d)))
    /\ \A c \in Callers :
          /\ pc[c] = "insert_lock" ~> Idle(c)
          /\ pc[c] = "lookup_lock" ~> (Idle(c) \/ pc[c] = "compute")
          /\ InSection(c) ~> ~InSection(c)

\* a call for a stored key is being served as a hit while the other caller is
\* suspended in user_function for another key
C20_Witness ==
    \E c, d \in Callers :
        /\ c /= d /\ pc[d] = "compute" /\ key[d] /= key[c]
        /\ pc[c] = "promote" /\ lock = c /\ result[c] /= NoResult

=============================================================================
